---------------------------- MODULE Spec2Model ----------------------------
(***************************************************************************)
(* Campus-hub academic records: registrations, enrollments, grade          *)
(* submissions, section assignments and the derived academic status.       *)
(* The tables of the relational store are the variables; every model       *)
(* method (clean / save / approve / reject / ...) is an operator on a      *)
(* store record, and the commands are actions built from them.  The code   *)
(* opens no transaction, so a command that raises keeps the rows it wrote  *)
(* before the exception.                                                   *)
(***************************************************************************)
EXTENDS Integers, FiniteSets, Sequences, TLC

VARIABLES
    registrations,      \* Registration rows, keyed by <<student, semester>>
    enrollments,        \* Enrollment rows, keyed by <<student, course, semester>>
    gradeSubmissions,   \* GradeSubmission rows
    sectionAssignments, \* SectionAssignment rows, keyed by <<student, semester>>
    academicStatuses,   \* AcademicStatus rows, keyed by <<student, semester>>
    semesterActive,     \* Semester.is_active
    dormitoryAssignments, \* DormitoryAssignment rows, keyed by <<student, semester>>
    creditHours,        \* Course.credit_hours, by course
    last,               \* the most recent command and what it returned
    pc,                 \* position of each concurrent request
    loc                 \* the in-memory objects of each concurrent request

vars == <<registrations, enrollments, gradeSubmissions, sectionAssignments,
          academicStatuses, semesterActive, dormitoryAssignments, creditHours,
          last, pc, loc>>

----------------------------------------------------------------------------
(* Catalogue and roster: rows the commands only read.                      *)

Students == {"s1", "s2", "s3", "s4"}
Teachers == {"t1", "t2"}
Users == Students \cup Teachers
Courses == {"c1", "c2"}
Semesters == {1, 2}
Terms == {1}             \* the semester the commands of Spec are sent for
Sections == {"secA"}
\* The sections a section assignment is called with, and the (user,
\* semester) keys it is called for: secC is the inactive one, t1 is not a
\* student.
SectionChoices == {"secA", "secB", "secC"}
SectionKeys == {<<"s1", 1>>, <<"s1", 2>>, <<"t1", 1>>}
Dormitories == {"r1", "r2"}
Workers == {"w1", "w2"}
\* The users the registration and grading commands are issued for and by.
Registrants == {"s1"}
Graders == {"t1"}
\* The users a grade submission is attempted by: the assigned teacher, a
\* teacher assigned elsewhere, a student.
Submitters == {"t1", "t2", "s2"}

Role(u) == IF u \in Students THEN "STUDENT" ELSE "TEACHER"
NoDept == "NULL"
\* s4 is a student whose department row was deleted (on_delete=SET_NULL).
UserDept(u) == IF u = "s3" THEN "EE" ELSE IF u = "s4" THEN NoDept ELSE "CS"
UserGender(u) == IF u = "s2" THEN "FEMALE" ELSE "MALE"
CourseDept(c) == "CS"
CourseActive(c) == TRUE
CreditHours(c) == IF c = "c1" THEN 4 ELSE 3
StartDate(p) == p
SectionActive(sec) == sec # "secC"
SectionCapacity == 1
DormGender(r) == "MALE"
DormDept(r) == IF r = "r2" THEN "EE" ELSE NoDept
DormActive(r) == TRUE
DormCapacity == 1
\* t1 teaches every course in every semester, t2 only c2 in semester 2.
CourseAssignments ==
    {<<c, "t1", p>> : c \in Courses, p \in Semesters} \cup {<<"c2", "t2", 2>>}

\* Marks are kept in thousandths (DecimalField with decimal_places = 3).
Marks == {95000, 42000, 30000}
MaxSubs == 2

Absent == "ABSENT"      \* no row
Null == "NULL"          \* a NULL column
NoGpa == -1             \* None returned by the GPA computations

Letters == {"A+", "A", "A-", "B+", "B", "B-", "C+", "C", "C-", "D", "F"}

OK == "OK"
ErrNotPending == "Only pending registrations can be approved."
ErrRegRole == "Only students can register for courses."
ErrRegInactive == "Registration is only allowed for an active semester."
ErrRegDismissed == "Dismissed students are not allowed to register."
ErrRegDept == "Course does not belong to student's department."
ErrRegUnique == "Registration with this Student and Semester already exists."
ErrEnrRole == "Only users with STUDENT role can be enrolled."
ErrEnrDismissed == "Dismissed students are not allowed to enroll."
ErrEnrInactive == "Enrollment is only allowed in an active semester."
ErrEnrCourse == "Cannot enroll in an inactive course."
ErrEnrDept == "Student can only enroll in courses from their department."
ErrEnrNoReg == "Student must have an approved registration before enrollment."
ErrEnrNoSection == "Student must be assigned to a section before enrollment."
ErrEnrUnique == "Enrollment with this Student, Course and Semester already exists."
ErrSubRole == "Only teachers can submit grades."
ErrSubNotAssigned == "Teacher is not assigned to this course in this semester."
ErrSubInactive == "Grades can only be submitted in an active semester."
ErrSubGraded == "This enrollment already has a grade. Submissions cannot overwrite an existing grade."
ErrSubMark == "mark: invalid decimal"
ErrDormRole == "Only students can be assigned to dormitories."
ErrDormInactive == "Dormitory is not active."
ErrDormFull == "Dormitory room is full for this semester."
ErrDormDept == "Dormitory does not belong to the student's department."
ErrDormUnique == "Dormitory assignment with this Student and Semester already exists."
IntegrityError == "IntegrityError"

----------------------------------------------------------------------------
(* The store as one record, so that a method is a function store -> store. *)

Store == [reg |-> registrations, enr |-> enrollments, subs |-> gradeSubmissions,
          sa |-> sectionAssignments, ast |-> academicStatuses,
          active |-> semesterActive, da |-> dormitoryAssignments,
          credits |-> creditHours]

Commit(d) ==
    /\ registrations' = d.reg
    /\ enrollments' = d.enr
    /\ gradeSubmissions' = d.subs
    /\ sectionAssignments' = d.sa
    /\ academicStatuses' = d.ast
    /\ semesterActive' = d.active
    /\ dormitoryAssignments' = d.da
    /\ creditHours' = d.credits

NoRegistration == [status |-> Absent, courses |-> {}]
NoStatus == [section |-> Null, semester_gpa |-> NoGpa, cumulative_gpa |-> NoGpa,
             status |-> Absent]

EmptyStore ==
    [reg |-> [k \in Users \X Semesters |-> NoRegistration],
     enr |-> [k \in Users \X Courses \X Semesters |-> Absent],
     subs |-> {},
     sa |-> [k \in Users \X Semesters |-> Absent],
     ast |-> [k \in Users \X Semesters |-> NoStatus],
     active |-> [p \in Semesters |-> TRUE],
     da |-> [k \in Users \X Semesters |-> Absent],
     credits |-> [c \in Courses |-> CreditHours(c)]]


----------------------------------------------------------------------------
(* A grade-point table that gives a letter with a sign the points of the  *)
(* bare letter.                                                            *)
GradePointsBareLetter(g) ==
    CASE g \in {"A+", "A", "A-"} -> 400
      [] g \in {"B+", "B", "B-"} -> 300
      [] g \in {"C+", "C", "C-"} -> 200
      [] g = "D" -> 100
      [] g = "F" -> 0
      [] OTHER -> NoGpa

(* GRADE_POINTS, times 100.                                                *)
GradePoints(g) ==
    CASE g = "A+" -> 400
      [] g = "A"  -> 400
      [] g = "A-" -> 375
      [] g = "B+" -> 350
      [] g = "B"  -> 300
      [] g = "B-" -> 275
      [] g = "C+" -> 250
      [] g = "C"  -> 200
      [] g = "C-" -> 175
      [] g = "D"  -> 100
      [] g = "F"  -> 0
      [] OTHER    -> NoGpa

(* A mapping whose bands take their upper edge instead of their lower one. *)
CalculateGradeUpperEdge(m) ==
    IF m > 90000 THEN "A+"
    ELSE IF 85000 < m /\ m <= 90000 THEN "A"
    ELSE IF 80000 < m /\ m <= 85000 THEN "A-"
    ELSE IF 75000 < m /\ m <= 80000 THEN "B+"
    ELSE IF 70000 < m /\ m <= 75000 THEN "B"
    ELSE IF 65000 < m /\ m <= 70000 THEN "B-"
    ELSE IF 60000 < m /\ m <= 65000 THEN "C+"
    ELSE IF 50000 < m /\ m <= 60000 THEN "C"
    ELSE IF 45000 < m /\ m <= 50000 THEN "C-"
    ELSE IF 40000 < m /\ m <= 45000 THEN "D"
    ELSE "F"

(* GradeSubmission.calculate_grade, on a mark in thousandths: float(mark)  *)
(* of a mark of three decimals lies on the same side of every whole bound  *)
(* as the mark, so the comparisons are those of the thousandths.           *)
CalculateGrade(m) ==
    IF m >= 90000 THEN "A+"
    ELSE IF 85000 <= m /\ m < 90000 THEN "A"
    ELSE IF 80000 <= m /\ m < 85000 THEN "A-"
    ELSE IF 75000 <= m /\ m < 80000 THEN "B+"
    ELSE IF 70000 <= m /\ m < 75000 THEN "B"
    ELSE IF 65000 <= m /\ m < 70000 THEN "B-"
    ELSE IF 60000 <= m /\ m < 65000 THEN "C+"
    ELSE IF 50000 <= m /\ m < 60000 THEN "C"
    ELSE IF 45000 <= m /\ m < 50000 THEN "C-"
    ELSE IF 40000 <= m /\ m < 45000 THEN "D"
    ELSE "F"

(* The accumulation loop shared by both GPA computations, over the         *)
(* enrollment keys ks: the quality points (quality = TRUE) or the credits  *)
(* (quality = FALSE); a grade outside GRADE_POINTS adds nothing.           *)
RECURSIVE SumOver(_, _, _)
SumOver(d, ks, quality) ==
    IF ks = {} THEN 0
    ELSE LET k == CHOOSE x \in ks : TRUE
             gp == GradePoints(d.enr[k])
             credits == d.credits[k[2]]
             term == IF gp = NoGpa THEN 0
                     ELSE IF quality THEN gp * credits ELSE credits
         IN  term + SumOver(d, ks \ {k}, quality)

(* The quotient cut after two decimals instead of rounded half up.        *)
GpaOfTruncated(d, ks) ==
    IF ks = {} THEN NoGpa
    ELSE LET total_quality_points == SumOver(d, ks, TRUE)
             total_credits == SumOver(d, ks, FALSE)
         IN  IF total_credits = 0 THEN NoGpa
             ELSE total_quality_points \div total_credits

(* The computation with 0.00 where there are no credit hours.              *)
GpaOfZeroDefault(d, ks) ==
    IF ks = {} THEN NoGpa
    ELSE LET total_quality_points == SumOver(d, ks, TRUE)
             total_credits == SumOver(d, ks, FALSE)
         IN  IF total_credits = 0 THEN 0
             ELSE (2 * total_quality_points + total_credits) \div (2 * total_credits)

(* quantize(Decimal("0.01"), ROUND_HALF_UP) of quality / credits; the      *)
(* result is in hundredths of a grade point.                               *)
GpaOf(d, ks) ==
    IF ks = {} THEN NoGpa
    ELSE LET total_quality_points == SumOver(d, ks, TRUE)
             total_credits == SumOver(d, ks, FALSE)
         IN  IF total_credits = 0 THEN NoGpa
             ELSE (2 * total_quality_points + total_credits) \div (2 * total_credits)

Graded(d, k) == d.enr[k] # Absent /\ d.enr[k] # Null

(* Semester.get_student_gpa *)
GetStudentGpa(d, p, s) ==
    GpaOf(d, {k \in {s} \X Courses \X {p} : Graded(d, k)})

(* Enrollment.calculate_cumulative_gpa *)
CalculateCumulativeGpa(d, s) ==
    GpaOf(d, {k \in {s} \X Courses \X Semesters : Graded(d, k)})

(* A classification that takes the cumulative GPA as its reference when   *)
(* there is one, and the semester GPA otherwise.                           *)
DetermineStatusCumulativeFirst(semester_gpa, cumulative_gpa) ==
    LET reference == IF cumulative_gpa # NoGpa THEN cumulative_gpa ELSE semester_gpa
    IN  IF reference = NoGpa THEN "ACTIVE"
        ELSE IF reference >= 200 THEN "ACTIVE"
        ELSE IF reference >= 175 THEN "PROBATION"
        ELSE "DISMISSED"

(* AcademicStatus.determine_status_from_gpa *)
DetermineStatusFromGpa(semester_gpa, cumulative_gpa) ==
    LET reference == IF semester_gpa # NoGpa THEN semester_gpa ELSE cumulative_gpa
    IN  IF reference = NoGpa THEN "ACTIVE"
        ELSE IF reference >= 200 THEN "ACTIVE"
        ELSE IF reference >= 175 THEN "PROBATION"
        ELSE "DISMISSED"

(* student.academic_statuses.order_by("-semester__start_date").first():    *)
(* the status of the snapshot of the latest semester, Absent without one.  *)
LatestStatus(d, s) ==
    LET have == {p \in Semesters : d.ast[<<s, p>>].status # Absent}
    IN  IF have = {} THEN Absent
        ELSE LET p == CHOOSE q \in have : \A r \in have : StartDate(r) <= StartDate(q)
             IN  d.ast[<<s, p>>].status

(* A recompute that classifies by the cumulative GPA stored on the row     *)
(* instead of the one it has just computed.                                *)
UpdateFromStoredCumulative(d, s, p) ==
    LET sem_gpa == GetStudentGpa(d, p, s)
        cum_gpa == CalculateCumulativeGpa(d, s)
        old == d.ast[<<s, p>>]
        row == [section |-> old.section,
                semester_gpa |-> sem_gpa, cumulative_gpa |-> cum_gpa,
                status |-> DetermineStatusFromGpa(sem_gpa, old.cumulative_gpa)]
    IN  [d EXCEPT !.ast[<<s, p>>] = row]

(* AcademicStatus.update_for_student_and_semester: recompute and           *)
(* update_or_create; the defaults leave the section of an existing row.    *)
(* A recompute that writes a whole new row and so clears the section. *)
UpdateClearingSection(d, s, p) ==
    LET sem_gpa == GetStudentGpa(d, p, s)
        cum_gpa == CalculateCumulativeGpa(d, s)
    IN  [d EXCEPT !.ast[<<s, p>>] =
             [section |-> Null, semester_gpa |-> sem_gpa, cumulative_gpa |-> cum_gpa,
              status |-> DetermineStatusFromGpa(sem_gpa, cum_gpa)]]

UpdateForStudentAndSemester(d, s, p) ==
    LET sem_gpa == GetStudentGpa(d, p, s)
        cum_gpa == CalculateCumulativeGpa(d, s)
        status == DetermineStatusFromGpa(sem_gpa, cum_gpa)
        old == d.ast[<<s, p>>]
        row == [section |-> old.section,
                semester_gpa |-> sem_gpa, cumulative_gpa |-> cum_gpa,
                status |-> status]
    IN  [d EXCEPT !.ast[<<s, p>>] = row]


----------------------------------------------------------------------------
(* Validation.  Each clean returns OK or the message of the first rule     *)
(* that raises.  persisted is "self.pk is set".                            *)

(* Registration.clean, for the registration of s in p with course set cs.  *)
RegistrationClean(d, s, p, cs, persisted) ==
    IF Role(s) # "STUDENT" THEN ErrRegRole
    ELSE IF ~d.active[p] THEN ErrRegInactive
    ELSE IF LatestStatus(d, s) = "DISMISSED" THEN ErrRegDismissed
    ELSE IF ~persisted THEN OK
    ELSE IF UserDept(s) # NoDept /\ \E c \in cs : CourseDept(c) # UserDept(s)
         THEN ErrRegDept
    ELSE OK

(* Enrollment.clean without the rule on the student's standing. *)
EnrollmentCleanNoStanding(d, s, c, p, persisted) ==
    IF Role(s) # "STUDENT" THEN ErrEnrRole
    ELSE IF ~persisted /\ ~d.active[p] THEN ErrEnrInactive
    ELSE IF ~persisted /\ ~CourseActive(c) THEN ErrEnrCourse
    ELSE IF UserDept(s) # NoDept /\ CourseDept(c) # NoDept /\ UserDept(s) # CourseDept(c)
         THEN ErrEnrDept
    ELSE IF d.reg[<<s, p>>].status # "APPROVED" THEN ErrEnrNoReg
    ELSE IF d.sa[<<s, p>>] = Absent THEN ErrEnrNoSection
    ELSE OK

(* Enrollment.clean *)
EnrollmentClean(d, s, c, p, persisted) ==
    IF Role(s) # "STUDENT" THEN ErrEnrRole
    ELSE IF LatestStatus(d, s) = "DISMISSED" THEN ErrEnrDismissed
    ELSE IF ~persisted /\ ~d.active[p] THEN ErrEnrInactive
    ELSE IF ~persisted /\ ~CourseActive(c) THEN ErrEnrCourse
    ELSE IF UserDept(s) # NoDept /\ CourseDept(c) # NoDept /\ UserDept(s) # CourseDept(c)
         THEN ErrEnrDept
    ELSE IF d.reg[<<s, p>>].status # "APPROVED" THEN ErrEnrNoReg
    ELSE IF d.sa[<<s, p>>] = Absent THEN ErrEnrNoSection
    ELSE OK

(* DecimalField(max_digits=5, decimal_places=3) with MinValueValidator(0)  *)
(* and MaxValueValidator(100): at most two digits before the point.        *)
MarkFieldValid(m) == 0 <= m /\ m <= 100000 /\ m \div 1000 < 100

(* A variant of clean without the "already has a grade" rule.              *)
GradeSubmissionCleanNoGradeRule(d, s, c, p, t, grade) ==
    IF Role(t) # "TEACHER" THEN ErrSubRole
    ELSE IF <<c, t, p>> \notin CourseAssignments THEN ErrSubNotAssigned
    ELSE IF ~d.active[p] THEN ErrSubInactive
    ELSE OK

(* GradeSubmission.clean without the rule on the course assignment. *)
GradeSubmissionCleanNoAssignment(d, s, c, p, t, grade) ==
    IF Role(t) # "TEACHER" THEN ErrSubRole
    ELSE IF ~d.active[p] THEN ErrSubInactive
    ELSE IF grade # Null THEN ErrSubGraded
    ELSE OK

(* GradeSubmission.clean, for a submission by t against the enrollment     *)
(* <<s, c, p>> whose grade the request read as grade.                      *)
GradeSubmissionClean(d, s, c, p, t, grade) ==
    IF Role(t) # "TEACHER" THEN ErrSubRole
    ELSE IF <<c, t, p>> \notin CourseAssignments THEN ErrSubNotAssigned
    ELSE IF ~d.active[p] THEN ErrSubInactive
    ELSE IF grade # Null THEN ErrSubGraded
    ELSE OK

(* A method's outcome: the store it leaves and OK or the error raised.     *)
Outcome(d, res) == [d |-> d, res |-> res]

(* Enrollment.save of a new row: full_clean (clean, then the               *)
(* unique_together check), then the insert with grade NULL.                *)
EnrollmentCreate(d, s, c, p) ==
    LET v == EnrollmentClean(d, s, c, p, FALSE)
    IN  IF v # OK THEN Outcome(d, v)
        ELSE IF d.enr[<<s, c, p>>] # Absent THEN Outcome(d, ErrEnrUnique)
        ELSE Outcome([d EXCEPT !.enr[<<s, c, p>>] = Null], OK)

(* A create-or-replace in place of get_or_create: a stored row is written  *)
(* again as a fresh, ungraded one.                                         *)
EnrollmentCreateOrReplace(d, s, c, p) ==
    IF d.enr[<<s, c, p>>] # Absent
    THEN Outcome([d EXCEPT !.enr[<<s, c, p>>] = Null], OK)
    ELSE EnrollmentCreate(d, s, c, p)

(* Enrollment.objects.get_or_create(student, semester, course) *)
EnrollmentGetOrCreate(d, s, c, p) ==
    IF d.enr[<<s, c, p>>] # Absent THEN Outcome(d, OK)
    ELSE EnrollmentCreate(d, s, c, p)

(* Registration.save(update_fields=["status", ...]) of a persisted row     *)
(* whose in-memory status is status: full_clean, then the update.          *)
RegistrationSaveStatus(d, s, p, status) ==
    LET v == RegistrationClean(d, s, p, d.reg[<<s, p>>].courses, TRUE)
    IN  IF v # OK THEN Outcome(d, v)
        ELSE Outcome([d EXCEPT !.reg[<<s, p>>].status = status], OK)


----------------------------------------------------------------------------
(* The registration workflow.                                              *)

(* The orders in which registration.courses.all() may yield the set cs.    *)
Orders(cs) ==
    {q \in [1..Cardinality(cs) -> cs] : \A i, j \in DOMAIN q : i # j => q[i] # q[j]}

(* The loop of approve over the courses: it stops at the first raise.      *)
RECURSIVE CreateEnrollments(_, _, _, _)
CreateEnrollments(d, s, p, order) ==
    IF order = <<>> THEN Outcome(d, OK)
    ELSE LET o == EnrollmentGetOrCreate(d, s, Head(order), p)
         IN  IF o.res # OK THEN o
             ELSE CreateEnrollments(o.d, s, p, Tail(order))

(* Registration.save of a new registration, then courses.set(cs).          *)
RegistrationCreate(d, s, p, cs) ==
    LET v == RegistrationClean(d, s, p, {}, FALSE)
    IN  IF v # OK THEN Outcome(d, v)
        ELSE IF d.reg[<<s, p>>].status # Absent THEN Outcome(d, ErrRegUnique)
        ELSE Outcome([d EXCEPT !.reg[<<s, p>>] = [status |-> "PENDING", courses |-> cs]], OK)

(* A variant of approve that saves the APPROVED status before the          *)
(* enrollments are created.                                                *)
ApproveStatusFirst(d, s, p, order) ==
    IF d.reg[<<s, p>>].status # "PENDING" THEN Outcome(d, ErrNotPending)
    ELSE LET saved == RegistrationSaveStatus(d, s, p, "APPROVED")
         IN  IF saved.res # OK THEN saved
             ELSE LET created == CreateEnrollments(saved.d, s, p, order)
                  IN  IF created.res # OK THEN created
                      ELSE Outcome(UpdateForStudentAndSemester(created.d, s, p), OK)

(* A variant of approve without the status guard.                          *)
ApproveUnguarded(d, s, p, order) ==
    LET created == CreateEnrollments(d, s, p, order)
    IN  IF created.res # OK THEN created
        ELSE RegistrationSaveStatus(
                 UpdateForStudentAndSemester(created.d, s, p), s, p, "APPROVED")

(* Registration.approve *)
Approve(d, s, p, order) ==
    IF d.reg[<<s, p>>].status # "PENDING" THEN Outcome(d, ErrNotPending)
    ELSE LET created == CreateEnrollments(d, s, p, order)
         IN  IF created.res # OK THEN created
             ELSE RegistrationSaveStatus(
                      UpdateForStudentAndSemester(created.d, s, p), s, p, "APPROVED")

(* Registration.reject *)
Reject(d, s, p) == RegistrationSaveStatus(d, s, p, "REJECTED")

(* RegistrationAdmin.reject_registrations: queryset.update(status=REJECTED) *)
RejectRegistrations(d, s, p) ==
    Outcome([d EXCEPT !.reg[<<s, p>>].status = "REJECTED"], OK)

(* RegistrationAdmin.approve_registrations *)
ApproveRegistrations(d, s, p, order) ==
    IF d.reg[<<s, p>>].status = "PENDING" THEN Approve(d, s, p, order)
    ELSE Outcome(d, OK)

(* A registration withdrawn through the admin change form: the status is   *)
(* set to CANCELLED and the row saved.                                     *)
Cancel(d, s, p) == RegistrationSaveStatus(d, s, p, "CANCELLED")

----------------------------------------------------------------------------
(* Grade submission, step by step (GradeSubmission.save).                  *)

SubmissionRow(d, s, c, p, t, m) ==
    [id |-> Cardinality(d.subs) + 1, student |-> s, course |-> c, semester |-> p,
     submitted_by |-> t, mark |-> m, grade |-> CalculateGrade(m)]

(* self.full_clean(): the field validators and clean; grade is the grade   *)
(* of the enrollment object the request holds.                             *)
SubmissionFullClean(d, s, c, p, t, m, grade) ==
    IF ~MarkFieldValid(m) THEN ErrSubMark
    ELSE GradeSubmissionClean(d, s, c, p, t, grade)

(* super().save(): the insert of the GradeSubmission row.                  *)
SubmissionInsert(d, s, c, p, t, m) ==
    [d EXCEPT !.subs = @ \cup {SubmissionRow(d, s, c, p, t, m)}]

(* A grade write that skips Enrollment.full_clean, as a queryset update   *)
(* would.                                                                  *)
SubmissionSetGradeUnchecked(d, s, c, p, m, grade) ==
    IF grade # Null THEN Outcome(d, OK)
    ELSE Outcome([d EXCEPT !.enr[<<s, c, p>>] = CalculateGrade(m)], OK)

(* "if not enrollment.grade: enrollment.grade = self.grade;                *)
(* enrollment.save(update_fields=['grade'])", where grade is the grade of  *)
(* the enrollment object the request holds; Enrollment.save runs           *)
(* full_clean first.                                                       *)
SubmissionSetGrade(d, s, c, p, m, grade) ==
    IF grade # Null THEN Outcome(d, OK)
    ELSE LET v == EnrollmentClean(d, s, c, p, TRUE)
         IN  IF v # OK THEN Outcome(d, v)
             ELSE Outcome([d EXCEPT !.enr[<<s, c, p>>] = CalculateGrade(m)], OK)

(* GradeSubmission.save run by one request with nothing in between.        *)
SubmitGrade(d, s, c, p, t, m) ==
    LET grade == d.enr[<<s, c, p>>]
        v == SubmissionFullClean(d, s, c, p, t, m, grade)
    IN  IF v # OK THEN Outcome(d, v)
        ELSE LET set == SubmissionSetGrade(SubmissionInsert(d, s, c, p, t, m),
                                           s, c, p, m, grade)
             IN  IF set.res # OK THEN set
                 ELSE Outcome(UpdateForStudentAndSemester(set.d, s, p), OK)

----------------------------------------------------------------------------
(* Section assignment.                                                     *)

(* AcademicStatus.assign_section_for_student_semester: two                 *)
(* update_or_create calls, neither of which validates, then the recompute  *)
(* and the save of the snapshot.                                           *)
(* A section assignment that goes through get_or_create and so keeps the  *)
(* section of a stored SectionAssignment.                                  *)
AssignSectionKeepStored(d, s, p, sec) ==
    LET kept == IF d.sa[<<s, p>>] # Absent THEN d.sa[<<s, p>>] ELSE sec
        d1 == [d EXCEPT !.sa[<<s, p>>] = kept]
        d2 == UpdateForStudentAndSemester(d1, s, p)
    IN  Outcome([d2 EXCEPT !.ast[<<s, p>>].section = kept], OK)

AssignSectionForStudentSemester(d, s, p, sec) ==
    LET d1 == [d EXCEPT !.sa[<<s, p>>] = sec]
        d2 == UpdateForStudentAndSemester(d1, s, p)
    IN  Outcome([d2 EXCEPT !.ast[<<s, p>>].section = sec], OK)


----------------------------------------------------------------------------
(* Commands.  A command run on its own is one action: the whole handler,   *)
(* with whatever it wrote before an exception left in the store.           *)

NoCommand == [op |-> "none", s |-> "-", c |-> "-", p |-> 0, res |-> OK]

Idle == [w \in Workers |-> "idle"]
NoLocals == [w \in Workers |-> [s |-> "-", c |-> "-", p |-> 0, t |-> "-", m |-> 0,
                                grade |-> Null, letter |-> Null,
                                semester_gpa |-> NoGpa,
                                cumulative_gpa |-> NoGpa, status |-> Absent]]

Init ==
    /\ registrations = EmptyStore.reg
    /\ enrollments = EmptyStore.enr
    /\ gradeSubmissions = EmptyStore.subs
    /\ sectionAssignments = EmptyStore.sa
    /\ academicStatuses = EmptyStore.ast
    /\ semesterActive = EmptyStore.active
    /\ dormitoryAssignments = EmptyStore.da
    /\ creditHours = EmptyStore.credits
    /\ last = NoCommand
    /\ pc = Idle
    /\ loc = NoLocals

Do(op, s, c, p, o) ==
    /\ Commit(o.d)
    /\ last' = [op |-> op, s |-> s, c |-> c, p |-> p, res |-> o.res]
    /\ UNCHANGED <<pc, loc>>

Persisted(s, p) == registrations[<<s, p>>].status # Absent

RegisterIn(ss, ps, css) ==
    \E s \in ss, p \in ps, cs \in css :
        Do("register", s, "-", p, RegistrationCreate(Store, s, p, cs))

CmdRegister == RegisterIn(Registrants, Terms, SUBSET Courses)

ApproveIn(ss, ps) ==
    \E s \in ss, p \in ps :
        /\ Persisted(s, p)
        /\ \E order \in Orders(registrations[<<s, p>>].courses) :
               Do("approve", s, "-", p, Approve(Store, s, p, order))

CmdApprove == ApproveIn(Registrants, Terms)

CmdReject ==
    \E s \in Registrants, p \in Terms :
        /\ Persisted(s, p)
        /\ Do("reject", s, "-", p, Reject(Store, s, p))

CmdRejectRegistrations ==
    \E s \in Registrants, p \in Terms :
        /\ Persisted(s, p)
        /\ Do("reject_registrations", s, "-", p, RejectRegistrations(Store, s, p))

CmdApproveRegistrations ==
    \E s \in Registrants, p \in Terms :
        /\ Persisted(s, p)
        /\ \E order \in Orders(registrations[<<s, p>>].courses) :
               Do("approve_registrations", s, "-", p,
                  ApproveRegistrations(Store, s, p, order))

CmdCancel ==
    \E s \in Registrants, p \in Terms :
        /\ Persisted(s, p)
        /\ Do("cancel", s, "-", p, Cancel(Store, s, p))

EnrollIn(ss, cs, ps) ==
    \E s \in ss, c \in cs, p \in ps :
        Do("enroll", s, c, p, EnrollmentCreate(Store, s, c, p))

CmdEnroll == EnrollIn(Registrants, Courses, Terms)

SubmitGradeIn(ss, cs, ps) ==
    \E s \in ss, c \in cs, p \in ps, t \in Graders, m \in Marks :
        /\ enrollments[<<s, c, p>>] # Absent
        /\ Cardinality(gradeSubmissions) < MaxSubs
        /\ Do("submit", s, c, p, SubmitGrade(Store, s, c, p, t, m))

CmdSubmitGrade == SubmitGradeIn(Registrants, Courses, Terms)

AssignSectionIn(ss, ps) ==
    \E s \in ss, p \in ps, sec \in Sections :
        Do("assign_section", s, "-", p, AssignSectionForStudentSemester(Store, s, p, sec))

CmdAssignSection == AssignSectionIn(Students, Terms)

CmdSetSemesterActive ==
    \E p \in Terms, b \in BOOLEAN :
        Do("semester", "-", "-", p, Outcome([Store EXCEPT !.active[p] = b], OK))

Next ==
    \/ CmdRegister
    \/ CmdApprove
    \/ CmdReject
    \/ CmdRejectRegistrations
    \/ CmdApproveRegistrations
    \/ CmdCancel
    \/ CmdEnroll
    \/ CmdSubmitGrade
    \/ CmdAssignSection
    \/ CmdSetSemesterActive

Spec == Init /\ [][Next]_vars

(* The commands that build the transcript of one student over all the      *)
(* semesters: registrations without courses, one course per semester.      *)
TranscriptCourses == {"c1"}
TermRegister == RegisterIn(Registrants, Semesters, {{}})
TermApprove == ApproveIn(Registrants, Semesters)
TermAssignSection == AssignSectionIn(Registrants, Semesters)
TermEnroll == EnrollIn(Registrants, TranscriptCourses, Semesters)
TermSubmitGrade == SubmitGradeIn(Registrants, TranscriptCourses, Semesters)

(* A call of AcademicStatus.update_for_student_and_semester on its own.    *)
TermRecompute ==
    \E s \in Registrants, p \in Semesters :
        Do("recompute", s, "-", p, Outcome(UpdateForStudentAndSemester(Store, s, p), OK))

NextTranscript ==
    \/ TermRegister
    \/ TermApprove
    \/ TermAssignSection
    \/ TermEnroll
    \/ TermSubmitGrade
    \/ TermRecompute

SpecTranscript == Init /\ [][NextTranscript]_vars

(* The GPA computations and the classification applied to transcripts      *)
(* drawn from bounded sets: student s1, approved and placed in a section   *)
(* in every semester, holds up to three enrollments whose grade column is  *)
(* NULL, a letter of GRADE_POINTS or a value outside it (the column is a   *)
(* free two-character field), in courses of 0 to 4 credit hours; the       *)
(* snapshots are the ones written before any grade.                        *)
GradeInputs == {"A", "A-", "B+", "C", "C-", "D", "F", "P"}
CreditInputs == {0, 1, 3, 4}
GpaKeys == {<<"s1", "c1", 1>>, <<"s1", "c2", 1>>, <<"s1", "c1", 2>>}

InitGpa ==
    /\ registrations = [k \in Users \X Semesters |->
                           IF k[1] = "s1" THEN [status |-> "APPROVED", courses |-> {}]
                           ELSE NoRegistration]
    /\ sectionAssignments = [k \in Users \X Semesters |->
                                IF k[1] = "s1" THEN "secA" ELSE Absent]
    /\ academicStatuses = [k \in Users \X Semesters |->
                              IF k[1] = "s1"
                              THEN [section |-> "secA", semester_gpa |-> NoGpa,
                                    cumulative_gpa |-> NoGpa, status |-> "ACTIVE"]
                              ELSE NoStatus]
    /\ \E g \in [GpaKeys -> GradeInputs \cup {Null, Absent}] :
           enrollments = [k \in Users \X Courses \X Semesters |->
                             IF k \in GpaKeys THEN g[k] ELSE Absent]
    /\ creditHours \in [Courses -> CreditInputs]
    /\ gradeSubmissions = EmptyStore.subs
    /\ semesterActive = EmptyStore.active
    /\ dormitoryAssignments = EmptyStore.da
    /\ last = NoCommand
    /\ pc = Idle
    /\ loc = NoLocals

NextGpa == TermRecompute

SpecGpa == InitGpa /\ [][NextGpa]_vars

(* calculate_grade applied to a GradeSubmission instance that holds any    *)
(* mark of three decimals from 0 to 100, saved or not.                     *)
MaxMark == 100000

InitGradeScale ==
    /\ registrations = EmptyStore.reg
    /\ enrollments = EmptyStore.enr
    /\ gradeSubmissions = EmptyStore.subs
    /\ sectionAssignments = EmptyStore.sa
    /\ academicStatuses = EmptyStore.ast
    /\ semesterActive = EmptyStore.active
    /\ dormitoryAssignments = EmptyStore.da
    /\ creditHours = EmptyStore.credits
    /\ last = NoCommand
    /\ pc = Idle
    /\ \E m \in 0..MaxMark : loc = [NoLocals EXCEPT !["w1"].m = m]

CalculateGradeOf(w) ==
    /\ pc[w] = "idle"
    /\ loc[w].letter = Null
    /\ loc' = [loc EXCEPT ![w].letter = CalculateGrade(loc[w].m)]
    /\ Commit(Store)
    /\ UNCHANGED <<pc, last>>

NextGradeScale == CalculateGradeOf("w1")

SpecGradeScale == InitGradeScale /\ [][NextGradeScale]_vars


----------------------------------------------------------------------------
(* Concurrent grade submissions: each worker runs GradeSubmission.save     *)
(* statement by statement, holding the enrollment object it loaded.        *)

InFlight == {w \in Workers : pc[w] # "idle"}

Finish(w, res) ==
    /\ pc' = [pc EXCEPT ![w] = "idle"]
    /\ loc' = [loc EXCEPT ![w] = NoLocals[w]]
    /\ last' = [op |-> "submit", s |-> loc[w].s, c |-> loc[w].c, p |-> loc[w].p,
                res |-> res]

(* The request loads the enrollment and runs self.full_clean().            *)
SubmitClean(w) ==
    \E s \in Registrants, c \in Courses, p \in Terms, t \in Graders, m \in Marks :
        LET grade == enrollments[<<s, c, p>>]
            v == SubmissionFullClean(Store, s, c, p, t, m, grade)
        IN  /\ pc[w] = "idle"
            /\ grade # Absent
            /\ Cardinality(gradeSubmissions) + Cardinality(InFlight) < MaxSubs
            /\ Commit(Store)
            /\ IF v # OK
               THEN /\ last' = [op |-> "submit", s |-> s, c |-> c, p |-> p, res |-> v]
                    /\ UNCHANGED <<pc, loc>>
               ELSE /\ pc' = [pc EXCEPT ![w] = "insert"]
                    /\ loc' = [loc EXCEPT ![w] = [NoLocals[w] EXCEPT
                                                    !.s = s, !.c = c, !.p = p, !.t = t,
                                                    !.m = m, !.grade = grade]]
                    /\ UNCHANGED last

(* the super().save call: the insert of the row *)
SubmitInsert(w) ==
    /\ pc[w] = "insert"
    /\ Commit(SubmissionInsert(Store, loc[w].s, loc[w].c, loc[w].p, loc[w].t, loc[w].m))
    /\ pc' = [pc EXCEPT ![w] = "set_grade"]
    /\ UNCHANGED <<loc, last>>

(* if not enrollment.grade: ... enrollment.save(update_fields=["grade"])   *)
SubmitSetGrade(w) ==
    LET o == SubmissionSetGrade(Store, loc[w].s, loc[w].c, loc[w].p, loc[w].m,
                                loc[w].grade)
    IN  /\ pc[w] = "set_grade"
        /\ Commit(o.d)
        /\ IF o.res # OK THEN Finish(w, o.res)
           ELSE /\ pc' = [pc EXCEPT ![w] = "recompute"]
                /\ UNCHANGED <<loc, last>>

(* The three values update_for_student_and_semester computes and hands to  *)
(* update_or_create as defaults.                                           *)
SnapshotValues(d, s, p) ==
    LET sem_gpa == GetStudentGpa(d, p, s)
        cum_gpa == CalculateCumulativeGpa(d, s)
    IN  [semester_gpa |-> sem_gpa, cumulative_gpa |-> cum_gpa,
         status |-> DetermineStatusFromGpa(sem_gpa, cum_gpa)]

(* AcademicStatus.save writing the values it was handed, with no recompute *)
AcademicStatusSaveDefaults(d, s, p, defaults) == defaults

(* AcademicStatus.save: whatever values the instance holds, the GPAs and   *)
(* the standing are computed again before the row is written.              *)
AcademicStatusSaveValues(d, s, p, defaults) == SnapshotValues(d, s, p)

(* The row lock select_for_update takes inside update_or_create: held by a *)
(* request from its get of the stored row to the end of its save.          *)
HoldsRow(w, s, p) ==
    /\ pc[w] \in {"save", "save_write"}
    /\ loc[w].s = s
    /\ loc[w].p = p

WithValues(l, v) ==
    [l EXCEPT !.semester_gpa = v.semester_gpa, !.cumulative_gpa = v.cumulative_gpa,
              !.status = v.status]

(* update_for_student_and_semester, first three statements: the defaults.  *)
SubmitRecompute(w) ==
    /\ pc[w] = "recompute"
    /\ Commit(Store)
    /\ pc' = [pc EXCEPT ![w] = "upsert"]
    /\ loc' = [loc EXCEPT ![w] = WithValues(@, SnapshotValues(Store, loc[w].s, loc[w].p))]
    /\ UNCHANGED last

(* update_or_create: self.select_for_update().get_or_create(...), the get. *)
(* A stored row is locked (the request waits while another one holds it)   *)
(* and takes the defaults; without a stored row the request goes on to     *)
(* create one.                                                             *)
SubmitUpsertGet(w) ==
    LET s == loc[w].s
        p == loc[w].p
    IN  /\ pc[w] = "upsert"
        /\ Commit(Store)
        /\ IF academicStatuses[<<s, p>>].status # Absent
           THEN /\ \A v \in Workers \ {w} : ~HoldsRow(v, s, p)
                /\ pc' = [pc EXCEPT ![w] = "save"]
           ELSE pc' = [pc EXCEPT ![w] = "create"]
        /\ UNCHANGED <<loc, last>>

(* AcademicStatus.save up to super().save(), of the new instance (create)  *)
(* or of the locked row (save).                                            *)
SubmitSaveRecompute(w) ==
    /\ pc[w] \in {"create", "save"}
    /\ Commit(Store)
    /\ pc' = [pc EXCEPT ![w] = IF pc[w] = "create" THEN "create_insert"
                                                   ELSE "save_write"]
    /\ loc' = [loc EXCEPT ![w] = WithValues(@,
                   AcademicStatusSaveValues(Store, loc[w].s, loc[w].p,
                       [semester_gpa |-> loc[w].semester_gpa,
                        cumulative_gpa |-> loc[w].cumulative_gpa,
                        status |-> loc[w].status]))]
    /\ UNCHANGED last

(* super().save(): of the locked row, the update of the three fields and   *)
(* the commit that releases the lock; of a new instance, the insert, and   *)
(* when the key was inserted meanwhile get_or_create catches the           *)
(* IntegrityError and gets the stored row.                                 *)
SubmitSaveWrite(w) ==
    LET s == loc[w].s
        p == loc[w].p
        stored == academicStatuses[<<s, p>>].status # Absent
        row == [section |-> academicStatuses[<<s, p>>].section,
                semester_gpa |-> loc[w].semester_gpa,
                cumulative_gpa |-> loc[w].cumulative_gpa, status |-> loc[w].status]
    IN  /\ pc[w] \in {"create_insert", "save_write"}
        /\ IF pc[w] = "create_insert" /\ stored
           THEN /\ Commit(Store)
                /\ pc' = [pc EXCEPT ![w] = "upsert"]
                /\ UNCHANGED <<loc, last>>
           ELSE /\ Commit([Store EXCEPT !.ast[<<s, p>>] = row])
                /\ Finish(w, OK)

(* The commands that set the scene for the concurrent submissions: a       *)
(* registration without courses, its approval, the section, the courses.   *)
SceneRegister == RegisterIn(Registrants, Terms, {{}})
SceneAssignSection == AssignSectionIn(Registrants, Terms)

NextConcurrent ==
    \/ SceneRegister
    \/ CmdApprove
    \/ SceneAssignSection
    \/ CmdEnroll
    \/ \E w \in Workers : SubmitClean(w)
    \/ \E w \in Workers : SubmitInsert(w)
    \/ \E w \in Workers : SubmitSetGrade(w)
    \/ \E w \in Workers : SubmitRecompute(w)
    \/ \E w \in Workers : SubmitUpsertGet(w)
    \/ \E w \in Workers : SubmitSaveRecompute(w)
    \/ \E w \in Workers : SubmitSaveWrite(w)

SpecConcurrent == Init /\ [][NextConcurrent]_vars


----------------------------------------------------------------------------
(* Dormitory rooms and their assignments (dormitory/models.py).            *)

(* Dormitory.assigned_count: the rows of the room in the semester.         *)
AssignedCount(d, r, p) == Cardinality({u \in Users : d.da[<<u, p>>] = r})

(* Dormitory.available_slots *)
AvailableSlots(d, r, p) == DormCapacity - AssignedCount(d, r, p)

ErrDormGenderOf(student_gender, dorm_gender) ==
    student_gender \o " students cannot be assigned to " \o dorm_gender
        \o " dormitories."

(* DormitoryAssignment.clean with the capacity rule raising only below zero *)
DormitoryAssignmentCleanStrict(d, s, r, p) ==
    IF Role(s) # "STUDENT" THEN ErrDormRole
    ELSE IF ~DormActive(r) THEN ErrDormInactive
    ELSE IF UserGender(s) # DormGender(r)
         THEN ErrDormGenderOf(UserGender(s), DormGender(r))
    ELSE IF AvailableSlots(d, r, p) < 0 THEN ErrDormFull
    ELSE IF DormDept(r) # NoDept /\ UserDept(s) # DormDept(r) THEN ErrDormDept
    ELSE OK

(* DormitoryAssignment.clean: the first rule that fails raises.            *)
DormitoryAssignmentClean(d, s, r, p) ==
    IF Role(s) # "STUDENT" THEN ErrDormRole
    ELSE IF ~DormActive(r) THEN ErrDormInactive
    ELSE IF UserGender(s) # DormGender(r)
         THEN ErrDormGenderOf(UserGender(s), DormGender(r))
    ELSE IF AvailableSlots(d, r, p) <= 0 THEN ErrDormFull
    ELSE IF DormDept(r) # NoDept /\ UserDept(s) # DormDept(r) THEN ErrDormDept
    ELSE OK

(* full_clean of a new row: clean, then validate_unique on                 *)
(* (student, semester); the error of clean is reported first.              *)
DormitoryAssignmentFullClean(d, s, r, p) ==
    LET v == DormitoryAssignmentClean(d, s, r, p)
    IN  IF v # OK THEN v
        ELSE IF d.da[<<s, p>>] # Absent THEN ErrDormUnique
        ELSE OK

(* DormitoryAssignment.save of a new row: full_clean, then the insert.     *)
DormitoryAssignmentCreate(d, s, r, p) ==
    LET v == DormitoryAssignmentFullClean(d, s, r, p)
    IN  IF v # OK THEN Outcome(d, v)
        ELSE Outcome([d EXCEPT !.da[<<s, p>>] = r], OK)

(* DormitoryAssignment.save of a stored row whose room was changed to r:   *)
(* validate_unique leaves the row itself out, clean counts it.             *)
DormitoryAssignmentChange(d, s, r, p) ==
    LET v == DormitoryAssignmentClean(d, s, r, p)
    IN  IF v # OK THEN Outcome(d, v)
        ELSE Outcome([d EXCEPT !.da[<<s, p>>] = r], OK)

CmdAssignDormitory ==
    \E s \in Users, r \in Dormitories, p \in Terms :
        /\ InFlight = {}
        /\ Do("assign_dormitory", s, r, p, DormitoryAssignmentCreate(Store, s, r, p))

CmdChangeDormitory ==
    \E s \in Users, r \in Dormitories, p \in Terms :
        /\ InFlight = {}
        /\ dormitoryAssignments[<<s, p>>] # Absent
        /\ Do("change_dormitory", s, r, p, DormitoryAssignmentChange(Store, s, r, p))

(* Two requests that add an assignment run at the same time; a request is  *)
(* two steps, since save reads the count in full_clean and then inserts.   *)
DormClean(w) ==
    \E s \in Students, r \in Dormitories, p \in Terms :
        LET v == DormitoryAssignmentFullClean(Store, s, r, p)
        IN  /\ pc[w] = "idle"
            /\ Commit(Store)
            /\ IF v # OK
               THEN /\ last' = [op |-> "assign_dormitory", s |-> s, c |-> r,
                                p |-> p, res |-> v]
                    /\ UNCHANGED <<pc, loc>>
               ELSE /\ pc' = [pc EXCEPT ![w] = "dorm_insert"]
                    /\ loc' = [loc EXCEPT ![w] = [NoLocals[w] EXCEPT
                                                    !.s = s, !.c = r, !.p = p]]
                    /\ UNCHANGED last

(* the super().save call: the insert of the row, which the unique index on *)
(* (student, semester) refuses when the key is already stored.             *)
DormInsert(w) ==
    LET s == loc[w].s
        r == loc[w].c
        p == loc[w].p
        taken == dormitoryAssignments[<<s, p>>] # Absent
    IN  /\ pc[w] = "dorm_insert"
        /\ Commit(IF taken THEN Store ELSE [Store EXCEPT !.da[<<s, p>>] = r])
        /\ pc' = [pc EXCEPT ![w] = "idle"]
        /\ loc' = [loc EXCEPT ![w] = NoLocals[w]]
        /\ last' = [op |-> "assign_dormitory", s |-> s, c |-> r, p |-> p,
                    res |-> IF taken THEN IntegrityError ELSE OK]

NextDormitory ==
    \/ CmdAssignDormitory
    \/ CmdChangeDormitory
    \/ \E w \in Workers : DormClean(w)
    \/ \E w \in Workers : DormInsert(w)

SpecDormitory == Init /\ [][NextDormitory]_vars

(* Registrations whose status is set on the admin change form (the form    *)
(* of RegistrationAdmin leaves status editable; the row is saved through   *)
(* Registration.save), so that approve meets enrollments that exist.       *)
FormStatuses == {"PENDING", "APPROVED"}

CmdChangeStatus ==
    \E s \in Registrants, p \in Terms, status \in FormStatuses :
        /\ Persisted(s, p)
        /\ Do("change_status", s, "-", p, RegistrationSaveStatus(Store, s, p, status))

(* GradeSubmission(enrollment, submitted_by, mark).save() by request w,    *)
(* which keeps the objects it was called with.                             *)
GradeSubmissionSave(w) ==
    \E s \in Registrants, c \in Courses, p \in Terms, t \in Submitters, m \in Marks :
        /\ enrollments[<<s, c, p>>] # Absent
        /\ Cardinality(gradeSubmissions) < MaxSubs
        /\ LET o == SubmitGrade(Store, s, c, p, t, m)
           IN  /\ Commit(o.d)
               /\ last' = [op |-> "submit", s |-> s, c |-> c, p |-> p, res |-> o.res]
        /\ loc' = [loc EXCEPT ![w] = [@ EXCEPT !.s = s, !.c = c, !.p = p, !.t = t,
                                                !.m = m,
                                                !.grade = enrollments[<<s, c, p>>]]]
        /\ UNCHANGED pc

NextGrading ==
    \/ SceneRegister
    \/ CmdApprove
    \/ SceneAssignSection
    \/ CmdEnroll
    \/ CmdSetSemesterActive
    \/ GradeSubmissionSave("w1")

SpecGrading == Init /\ [][NextGrading]_vars

(* AcademicStatus.assign_section_for_student_semester(student, semester,   *)
(* section) called for any user and any section; the command keeps the     *)
(* section it was called with.                                             *)
CmdAssignSectionTo ==
    \E k \in SectionKeys, sec \in SectionChoices :
        Do("assign_section", k[1], sec, k[2],
           AssignSectionForStudentSemester(Store, k[1], k[2], sec))

NextSections ==
    \/ SceneRegister
    \/ CmdApprove
    \/ CmdAssignSectionTo
    \/ CmdEnroll
    \/ CmdSubmitGrade

SpecSections == Init /\ [][NextSections]_vars

NextReopen ==
    \/ CmdRegister
    \/ CmdChangeStatus
    \/ CmdApprove
    \/ SceneAssignSection
    \/ CmdEnroll
    \/ CmdSubmitGrade

SpecReopen == Init /\ [][NextReopen]_vars


----------------------------------------------------------------------------
(* Properties.                                                             *)

Key(s, p) == <<s, p>>
StatusOf(s, p) == registrations[Key(s, p)].status
CoursesOf(s, p) == registrations[Key(s, p)].courses

(* The command that has just run was op, for the registration of s in p.   *)
JustRan(op, s, p) == last'.op = op /\ last'.s = s /\ last'.p = p

EnrollmentErrors ==
    {ErrEnrRole, ErrEnrDismissed, ErrEnrInactive, ErrEnrCourse, ErrEnrDept,
     ErrEnrNoReg, ErrEnrNoSection, ErrEnrUnique}

(* The student of a registration is eligible: STUDENT role, active         *)
(* semester, not dismissed, a section assigned, and active courses of the  *)
(* student's department.                                                   *)
Eligible(s, p) ==
    /\ Role(s) = "STUDENT"
    /\ semesterActive[p]
    /\ LatestStatus(Store, s) # "DISMISSED"
    /\ sectionAssignments[Key(s, p)] # Absent
    /\ \A c \in CoursesOf(s, p) : CourseDept(c) = UserDept(s) /\ CourseActive(c)

\* C1: approving a PENDING registration of an eligible student whose course
\* set has k courses succeeds, leaves exactly one enrollment per course of
\* the set for (student, semester), all of them ungraded, and leaves the
\* registration APPROVED.
C1_ApproveCreatesEnrollments ==
    [][\A s \in Registrants, p \in Semesters :
         (JustRan("approve", s, p) /\ StatusOf(s, p) = "PENDING" /\ Eligible(s, p))
         => /\ last'.res = OK
            /\ registrations'[Key(s, p)].status = "APPROVED"
            /\ \A c \in Courses :
                 enrollments'[<<s, c, p>>] = IF c \in CoursesOf(s, p) THEN Null ELSE Absent
      ]_vars

\* C2: approve on a persisted registration whose status is not PENDING
\* raises the "only pending" ValidationError and changes neither the
\* registrations, nor the enrollments, nor the academic status snapshots.
C2_ApproveNotPendingFails ==
    [][\A s \in Registrants, p \in Semesters :
         (JustRan("approve", s, p) /\ StatusOf(s, p) \in {"APPROVED", "REJECTED", "CANCELLED"})
         => /\ last'.res = ErrNotPending
            /\ registrations' = registrations
            /\ enrollments' = enrollments
            /\ academicStatuses' = academicStatuses
      ]_vars

\* C2 witness: an APPROVED registration was approved again and the call
\* raised the "only pending" error.
C2_Witness ==
    \E s \in Registrants, p \in Terms :
        /\ last = [op |-> "approve", s |-> s, c |-> "-", p |-> p, res |-> ErrNotPending]
        /\ StatusOf(s, p) = "APPROVED"

\* C3: once a registration is APPROVED, neither approve nor reject (the
\* model method or the admin action) changes its status.
C3_ApprovedIsTerminal ==
    [][\A s \in Registrants, p \in Semesters :
         (/\ last'.op \in {"approve", "approve_registrations", "reject", "reject_registrations"}
          /\ StatusOf(s, p) = "APPROVED")
         => registrations'[Key(s, p)].status = "APPROVED"
      ]_vars

\* C4: reject on a persisted registration always succeeds, whatever the
\* status of the registration and the state of its semester and student,
\* leaves the status REJECTED and creates no enrollment.
C4_RejectAlwaysSucceeds ==
    [][\A s \in Registrants, p \in Semesters :
         (JustRan("reject", s, p) /\ StatusOf(s, p) # Absent)
         => /\ last'.res = OK
            /\ registrations'[Key(s, p)].status = "REJECTED"
            /\ enrollments' = enrollments
      ]_vars

C6_ApproveAllOrNothing ==
    [][\A s \in Registrants, p \in Semesters :
         (JustRan("approve", s, p) /\ last'.res # OK)
         => /\ enrollments' = enrollments
            /\ academicStatuses' = academicStatuses
      ]_vars

C8_GradeWrittenOnce ==
    [][\A k \in Users \X Courses \X Semesters :
         enrollments[k] \in Letters => enrollments'[k] = enrollments[k]
      ]_vars

\* C9: when a grade submission fails, the grade of the enrollment is
\* unchanged and neither a GradeSubmission row nor a snapshot change of that
\* call remains in the store.
C9_SubmitAllOrNothing ==
    [][(last'.op = "submit" /\ last'.res # OK)
         => /\ gradeSubmissions' = gradeSubmissions
            /\ enrollments' = enrollments
            /\ academicStatuses' = academicStatuses
      ]_vars

\* C10: the number of SectionAssignment rows that point to a section for one
\* semester never exceeds the capacity of the section.
C10_SectionCapacity ==
    \A sec \in Sections, p \in Semesters :
        Cardinality({s \in Users : sectionAssignments[Key(s, p)] = sec}) <= SectionCapacity

(* The command or request that has just reported was op, of s for room r.  *)
JustRanDorm(op, s, r, p) ==
    last'.op = op /\ last'.s = s /\ last'.c = r /\ last'.p = p

(* The room holds at least as many rows in the semester as it has seats.   *)
RoomFull(r, p) == AvailableSlots(Store, r, p) <= 0

\* C11: under any interleaving of concurrent dormitory assignments of
\* distinct students to one room and semester, the number of assignment rows
\* of the room in the semester never exceeds the capacity of the room.
C11_DormCapacityNeverExceeded ==
    \A r \in Dormitories, p \in Semesters :
        AssignedCount(Store, r, p) <= DormCapacity

\* C12 as stated: when the room is full in the semester, a further assignment
\* of another student to it fails with the capacity error and writes no row.
C12_FullRoomCapacityError ==
    [][\A s \in Students, r \in Dormitories, p \in Semesters :
         (/\ InFlight = {}
          /\ JustRanDorm("assign_dormitory", s, r, p)
          /\ RoomFull(r, p)
          /\ dormitoryAssignments[<<s, p>>] # r)
         => (/\ last'.res = ErrDormFull
             /\ dormitoryAssignments' = dormitoryAssignments)
      ]_vars

\* C12 amended: when the room is full in the semester, a further assignment
\* of another student to it (a new row or a stored row moved to the room)
\* fails and writes no row; the error is the capacity error when the student
\* passes the rules clean checks before capacity (role, active room, gender).
C12_FullRoomRefused ==
    [][\A s \in Students, r \in Dormitories, p \in Semesters :
         (/\ InFlight = {}
          /\ \/ JustRanDorm("assign_dormitory", s, r, p)
             \/ JustRanDorm("change_dormitory", s, r, p)
          /\ RoomFull(r, p)
          /\ dormitoryAssignments[<<s, p>>] # r)
         => (/\ last'.res # OK
             /\ dormitoryAssignments' = dormitoryAssignments
             /\ (DormActive(r) /\ UserGender(s) = DormGender(r))
                    => last'.res = ErrDormFull)
      ]_vars

(* A student without a room was refused a full room by the capacity rule.  *)
C12_Witness ==
    /\ last.op = "assign_dormitory"
    /\ last.s \in Students
    /\ last.res = ErrDormFull
    /\ dormitoryAssignments[<<last.s, last.p>>] = Absent
    /\ AssignedCount(Store, last.c, last.p) = DormCapacity
    /\ InFlight = {}

\* C13: each Enrollment of a student in a semester is accompanied by an
\* APPROVED Registration and a SectionAssignment of that student and semester.
C13_EnrollmentHasRegistrationAndSection ==
    \A s \in Students, c \in Courses, p \in Semesters :
        enrollments[<<s, c, p>>] # Absent
            => (/\ StatusOf(s, p) = "APPROVED"
                /\ sectionAssignments[Key(s, p)] # Absent)

(* The stored snapshot of (s, p), when there is one, holds the values a    *)
(* recompute would derive from the graded enrollments of the store d.      *)
SnapshotFresh(d, s, p) ==
    LET row == d.ast[<<s, p>>]
        sem_gpa == GetStudentGpa(d, p, s)
        cum_gpa == CalculateCumulativeGpa(d, s)
    IN  row.status # Absent
            => (/\ row.semester_gpa = sem_gpa
                /\ row.cumulative_gpa = cum_gpa
                /\ row.status = DetermineStatusFromGpa(sem_gpa, cum_gpa))

\* C14: between commands, each stored AcademicStatus snapshot holds the
\* semester GPA, cumulative GPA and standing that a recompute for its
\* (student, semester) would derive from the currently graded enrollments
\* (the store holds one row per key, so at most one snapshot per key).
C14_SnapshotsFresh ==
    \A s \in Students, p \in Semesters : SnapshotFresh(Store, s, p)

(* A GradeSubmission row is stored for the enrollment of s in c and p.     *)
HasSubmission(s, c, p) ==
    \E r \in gradeSubmissions : r.student = s /\ r.course = c /\ r.semester = p

(* Every course of s in p holds a grade and a submission, and no request   *)
(* is still running.                                                       *)
AllSubmitted(s, p) ==
    /\ InFlight = {}
    /\ \A c \in Courses : Graded(Store, <<s, c, p>>) /\ HasSubmission(s, c, p)

\* C15: when the grade submissions for the different courses of one student
\* in one semester, run in any interleaving, have all succeeded and finished,
\* the snapshot of (student, semester) holds the GPAs and the standing
\* computed from all of these grades.
C15_NoLostUpdate ==
    \A s \in Registrants, p \in Semesters :
        AllSubmitted(s, p)
            => (/\ academicStatuses[<<s, p>>].status # Absent
                /\ SnapshotFresh(Store, s, p))

(* Both submissions succeeded with grades F and D: each of them alone      *)
(* dismisses the student, and a dismissed student's grade write is         *)
(* refused, so the two requests overlapped; the GPA of both differs from   *)
(* the GPA of either alone.                                                *)
C15_Witness ==
    \E s \in Registrants, p \in Semesters :
        /\ AllSubmitted(s, p)
        /\ enrollments[<<s, "c1", p>>] = "F"
        /\ enrollments[<<s, "c2", p>>] = "D"
        /\ last.op = "submit"
        /\ last.res = OK
        /\ academicStatuses[<<s, p>>].semester_gpa = 43

\* C16: update_for_student_and_semester run twice for one (student, semester)
\* with no write in between leaves the store that one run leaves: the same
\* semester GPA, cumulative GPA, standing and section on the snapshot, one
\* snapshot for the key, and every other row as it was.
C16_RecomputeIdempotent ==
    \A s \in Registrants, p \in Semesters :
        LET once == UpdateForStudentAndSemester(Store, s, p)
            twice == UpdateForStudentAndSemester(once, s, p)
        IN  /\ twice = once
            /\ once.ast[<<s, p>>].status # Absent
            /\ \A k \in Users \X Semesters :
                   k # <<s, p>> => once.ast[k] = academicStatuses[k]

(* A recompute on its own has refreshed a snapshot that holds a section    *)
(* and whose cumulative GPA comes from a grade of another semester.        *)
C16_Witness ==
    /\ last.op = "recompute"
    /\ academicStatuses[<<last.s, last.p>>].section # Null
    /\ academicStatuses[<<last.s, last.p>>].semester_gpa = NoGpa
    /\ academicStatuses[<<last.s, last.p>>].cumulative_gpa # NoGpa

(* The snapshot the recompute that has just run has written.               *)
Recomputed == academicStatuses[<<last.s, last.p>>]

\* C17: the standing a recompute writes is classified from the semester GPA
\* when there is one and from the cumulative GPA otherwise: ACTIVE from 2.00
\* up, PROBATION from 1.75 up to but not including 2.00, DISMISSED below
\* 1.75, and ACTIVE when both are absent; so 1.80 gives PROBATION and 1.50
\* gives DISMISSED.
C17_ClassificationBands ==
    last.op = "recompute" =>
        LET reference == IF Recomputed.semester_gpa # NoGpa
                         THEN Recomputed.semester_gpa
                         ELSE Recomputed.cumulative_gpa
        IN  /\ reference = NoGpa => Recomputed.status = "ACTIVE"
            /\ reference >= 200 => Recomputed.status = "ACTIVE"
            /\ (175 <= reference /\ reference < 200) => Recomputed.status = "PROBATION"
            /\ (0 <= reference /\ reference < 175) => Recomputed.status = "DISMISSED"
            /\ reference = 180 => Recomputed.status = "PROBATION"
            /\ reference = 150 => Recomputed.status = "DISMISSED"

(* A semester GPA of 1.80 beside a cumulative GPA above 2.00: PROBATION.   *)
C17_Witness ==
    /\ last.op = "recompute"
    /\ Recomputed.semester_gpa = 180
    /\ Recomputed.cumulative_gpa >= 200
    /\ Recomputed.status = "PROBATION"

(* The graded enrollments of the recomputed key: of its semester, and of   *)
(* all semesters of the student.                                           *)
SemesterKeys == {k \in {last.s} \X Courses \X {last.p} : Graded(Store, k)}
CumulativeKeys == {k \in {last.s} \X Courses \X Semesters : Graded(Store, k)}

(* g, in hundredths, is quality / credits rounded to two decimals with     *)
(* halves up: g - 0.005 <= quality / credits < g + 0.005.                  *)
RoundsHalfUp(g, quality, credits) ==
    /\ 2 * credits * g - credits <= 2 * quality
    /\ 2 * quality < 2 * credits * g + credits

(* The claim of C18 for the GPA g computed over the keys ks.               *)
GpaFormula(g, ks) ==
    LET quality == SumOver(Store, ks, TRUE)
        credits == SumOver(Store, ks, FALSE)
    IN  credits > 0
            => (/\ RoundsHalfUp(g, quality, credits)
                /\ 2 * quality = 725 * credits => g = 363)

\* C18: the GPA a recompute writes is the sum of grade point x credit hours
\* over the sum of credit hours of the graded enrollments with a mapped
\* grade, rounded to two decimals with halves up (3.625 gives 3.63); the
\* semester GPA and the cumulative GPA follow the same formula, each over its
\* own enrollments.
C18_GpaFormula ==
    last.op = "recompute" =>
        (/\ GpaFormula(Recomputed.semester_gpa, SemesterKeys)
         /\ GpaFormula(Recomputed.cumulative_gpa, CumulativeKeys))

(* A semester whose quotient is 3.625 exactly, stored as 3.63, beside a    *)
(* cumulative GPA over more enrollments.                                   *)
C18_Witness ==
    /\ last.op = "recompute"
    /\ SumOver(Store, SemesterKeys, FALSE) > 0
    /\ 2 * SumOver(Store, SemesterKeys, TRUE) = 725 * SumOver(Store, SemesterKeys, FALSE)
    /\ Recomputed.semester_gpa = 363
    /\ Recomputed.cumulative_gpa # 363
    /\ Recomputed.cumulative_gpa # NoGpa

(* The enrollment k adds credit hours to a GPA: it holds a grade of        *)
(* GRADE_POINTS and its course has credit hours.                           *)
Counted(k) ==
    /\ Graded(Store, k)
    /\ enrollments[k] \in Letters
    /\ creditHours[k[2]] > 0

(* The claim of C19 for the GPA g computed over the enrollment keys ks.    *)
AbsentIffNoCredits(g, ks) ==
    LET counted == {k \in ks : Counted(k)}
    IN  /\ g = NoGpa <=> counted = {}
        /\ (counted # {} /\ \A k \in counted : enrollments[k] = "F") => g = 0

\* C19: the GPA a recompute writes is absent exactly when no credit hours
\* were accumulated (no enrollment, only ungraded ones, only grades outside
\* the grade-point table, or only courses of zero credit hours); grades that
\* are all F over positive credit hours give 0.00, not an absent GPA.
C19_AbsentIffNoCredits ==
    last.op = "recompute" =>
        (/\ AbsentIffNoCredits(Recomputed.semester_gpa,
                               {last.s} \X Courses \X {last.p})
         /\ AbsentIffNoCredits(Recomputed.cumulative_gpa,
                               {last.s} \X Courses \X Semesters))

(* The semester holds a graded enrollment and yet no GPA (its grade is     *)
(* unmapped or its course has no credit hours), while an F of another      *)
(* semester over positive credit hours gives the cumulative GPA 0.00.      *)
C19_Witness ==
    /\ last.op = "recompute"
    /\ SemesterKeys # {}
    /\ Recomputed.semester_gpa = NoGpa
    /\ Recomputed.cumulative_gpa = 0

(* The enrollments of the recomputed semester that count are an A in a     *)
(* course of 4 credit hours and a B+ in a course of 3 credit hours.        *)
GradedAandBPlus ==
    /\ last.op = "recompute"
    /\ \E a, b \in SemesterKeys :
           /\ enrollments[a] = "A" /\ creditHours[a[2]] = 4
           /\ enrollments[b] = "B+" /\ creditHours[b[2]] = 3
           /\ \A k \in SemesterKeys \ {a, b} : ~Counted(k)

\* C20 as stated: for the graded set {A with 4 credit hours, B+ with 3 credit
\* hours} the computed GPA is 3.36.
C20_GpaIs336 == GradedAandBPlus => Recomputed.semester_gpa = 336

\* C20 amended: for the graded set {A with 4 credit hours, B+ with 3 credit
\* hours} the computed GPA is 3.79, that is (4.0 x 4 + 3.5 x 3) / 7 = 26.5 / 7
\* rounded to two decimals.
C20_GpaIs379 == GradedAandBPlus => Recomputed.semester_gpa = 379

(* The recompute has run on that graded set and stored 3.79.               *)
C20_Witness == GradedAandBPlus /\ Recomputed.semester_gpa = 379

(* The bands of the claim, in thousandths: lower edge included, upper edge *)
(* excluded; the top band ends above the largest mark.                     *)
Bands ==
    {[lo |-> 90000, hi |-> MaxMark + 1, letter |-> "A+"],
     [lo |-> 85000, hi |-> 90000, letter |-> "A"],
     [lo |-> 80000, hi |-> 85000, letter |-> "A-"],
     [lo |-> 75000, hi |-> 80000, letter |-> "B+"],
     [lo |-> 70000, hi |-> 75000, letter |-> "B"],
     [lo |-> 65000, hi |-> 70000, letter |-> "B-"],
     [lo |-> 60000, hi |-> 65000, letter |-> "C+"],
     [lo |-> 50000, hi |-> 60000, letter |-> "C"],
     [lo |-> 45000, hi |-> 50000, letter |-> "C-"],
     [lo |-> 40000, hi |-> 45000, letter |-> "D"],
     [lo |-> 0, hi |-> 40000, letter |-> "F"]}

BandsOf(m) == {b \in Bands : b.lo <= m /\ m < b.hi}

\* C21: every mark of three decimals in [0, 100] lies in exactly one band and
\* calculate_grade returns the letter of that band: [90,..) A+, [85,90) A,
\* [80,85) A-, [75,80) B+, [70,75) B, [65,70) B-, [60,65) C+, [50,60) C,
\* [45,50) C-, [40,45) D, below 40 F; so 90.000 gives A+, 89.999 gives A,
\* 92.5 gives A+, 44.999 gives D and 39.999 gives F.
C21_BandsTotalExclusive ==
    \A w \in Workers :
        loc[w].letter # Null =>
            (/\ Cardinality(BandsOf(loc[w].m)) = 1
             /\ \A b \in BandsOf(loc[w].m) : loc[w].letter = b.letter
             /\ loc[w].m = 90000 => loc[w].letter = "A+"
             /\ loc[w].m = 89999 => loc[w].letter = "A"
             /\ loc[w].m = 92500 => loc[w].letter = "A+"
             /\ loc[w].m = 44999 => loc[w].letter = "D"
             /\ loc[w].m = 39999 => loc[w].letter = "F")

(* calculate_grade has run on the mark 89.999, just under a band edge.     *)
C21_Witness == loc["w1"].m = 89999 /\ loc["w1"].letter = "A"

\* C22: there is one enrollment row per (student, course, semester) at most
\* (the store holds one row per key), and approve changes no enrollment that
\* exists, its grade included, and adds rows only for courses of the
\* registration that had none, each ungraded.
C22_ApproveKeepsEnrollments ==
    [][\A s \in Registrants, p \in Semesters :
         JustRan("approve", s, p)
         => \A k \in Users \X Courses \X Semesters :
                IF enrollments[k] # Absent
                THEN enrollments'[k] = enrollments[k]
                ELSE enrollments'[k] # Absent
                         => (/\ k[1] = s /\ k[3] = p
                             /\ k[2] \in CoursesOf(s, p)
                             /\ enrollments'[k] = Null)
      ]_vars

(* approve has succeeded on a registration one of whose courses already    *)
(* had a graded enrollment, which is still there.                          *)
C22_Witness ==
    /\ last.op = "approve"
    /\ last.res = OK
    /\ \E c \in CoursesOf(last.s, last.p) : enrollments[<<last.s, c, last.p>>] \in Letters


Tables ==
    <<registrations, enrollments, gradeSubmissions, sectionAssignments,
      academicStatuses, dormitoryAssignments>>

RegistrationErrors == {ErrRegRole, ErrRegInactive, ErrRegDismissed, ErrRegDept, ErrRegUnique}

Dismissed(s) == LatestStatus(Store, s) = "DISMISSED"

(* C23: a student whose most recent standing record, by the start date of  *)
(* its semester, is DISMISSED cannot create a registration or an           *)
(* enrollment: the attempt fails with a ValidationError and writes nothing, *)
(* and no command adds a registration or an enrollment of that student.    *)
C23_DismissedBlocked ==
    [][\A s \in Registrants :
         Dismissed(s)
         => /\ \A p \in Semesters :
                   /\ JustRan("register", s, p)
                      => last'.res \in RegistrationErrors /\ UNCHANGED Tables
                   /\ \A c \in Courses :
                          last'.op = "enroll" /\ last'.s = s /\ last'.c = c /\ last'.p = p
                          => last'.res \in EnrollmentErrors /\ UNCHANGED Tables
            /\ \A p \in Semesters :
                   StatusOf(s, p) = Absent => registrations'[Key(s, p)].status = Absent
            /\ \A k \in Users \X Courses \X Semesters :
                   k[1] = s /\ enrollments[k] = Absent => enrollments'[k] = Absent
      ]_vars

(* A student dismissed in the first semester, with an approved             *)
(* registration and a section in the second, is refused the enrollment.    *)
C23_Witness ==
    /\ last.op = "enroll"
    /\ last.res = ErrEnrDismissed
    /\ last.p = 2
    /\ StatusOf(last.s, last.p) = "APPROVED"
    /\ sectionAssignments[Key(last.s, last.p)] # Absent
    /\ academicStatuses[Key(last.s, 1)].status = "DISMISSED"


SubmissionErrors == {ErrSubRole, ErrSubNotAssigned, ErrSubInactive, ErrSubGraded, ErrSubMark}

MaySubmit(t, c, p) == Role(t) = "TEACHER" /\ <<c, t, p>> \in CourseAssignments

(* C24: a grade submission succeeds only if its submitter has the TEACHER  *)
(* role and a CourseAssignment exists for the enrollment's course, the     *)
(* submitter and the enrollment's semester; otherwise it fails with a      *)
(* ValidationError, no GradeSubmission is stored, and the enrollment's     *)
(* grade and the standing snapshot stay as they were.                      *)
C24_SubmitterMustBeAssignedTeacher ==
    [][last'.op = "submit"
       => LET o == loc'["w1"]
          IN  /\ last'.res = OK => MaySubmit(o.t, o.c, o.p)
              /\ ~MaySubmit(o.t, o.c, o.p)
                 => /\ last'.res \in SubmissionErrors
                    /\ gradeSubmissions' = gradeSubmissions
                    /\ enrollments' = enrollments
                    /\ academicStatuses' = academicStatuses
      ]_vars

(* A teacher assigned to the course in another semester only is refused    *)
(* while the enrollment is still ungraded in an active semester.           *)
C24_Witness ==
    /\ last.op = "submit"
    /\ last.res = ErrSubNotAssigned
    /\ loc["w1"].t = "t2"
    /\ loc["w1"].c = "c2"
    /\ enrollments[<<last.s, last.c, last.p>>] = Null
    /\ semesterActive[last.p]


\* C25: each enrollment has at most one stored GradeSubmission, and a
\* GradeSubmission is stored for an enrollment only if the enrollment's grade
\* is set and equals the letter derived by that submission.
C25_OneSubmissionMatchingGrade ==
    /\ \A a \in gradeSubmissions, b \in gradeSubmissions :
           a.student = b.student /\ a.course = b.course /\ a.semester = b.semester
               => a = b
    /\ \A r \in gradeSubmissions :
           enrollments[<<r.student, r.course, r.semester>>] = r.grade


(* C26: the rule on the active semester applies to creation only: creating *)
(* a registration, an enrollment or a grade submission in an inactive      *)
(* semester fails, while saving a stored registration or enrollment again  *)
(* (the status save of approve or reject, the grade write of a             *)
(* submission) is never refused because its semester is inactive.          *)
C26_ActiveRuleOnCreationOnly ==
    [][/\ last'.op \in {"register", "enroll", "submit"} /\ ~semesterActive[last'.p]
          => last'.res # OK
       /\ last'.op \in {"approve", "reject"} => last'.res # ErrRegInactive
       /\ last'.op = "submit" => last'.res # ErrEnrInactive
      ]_vars


DeptMismatch(s, r) ==
    DormDept(r) # NoDept /\ UserDept(s) # NoDept /\ UserDept(s) # DormDept(r)

(* C27: the rules are evaluated in the order role, active semester,        *)
(* standing, department, prerequisite, capacity, and the first failing     *)
(* rule gives the reason: an enrollment is refused for the student's       *)
(* standing only in an active semester, and a dormitory assignment is      *)
(* refused for capacity only when the departments do not conflict.         *)
C27_FirstFailingRuleReported ==
    [][/\ last'.op = "enroll" /\ last'.res = ErrEnrDismissed
          => semesterActive[last'.p]
       /\ last'.op = "assign_dormitory" /\ last'.res = ErrDormFull
          => ~DeptMismatch(last'.s, last'.c)
      ]_vars


(* C28: the department rule refuses a dormitory assignment only when the   *)
(* student and the dormitory both carry a department and the two differ;   *)
(* a student without a department is not refused for a dormitory that is   *)
(* restricted to a department.                                             *)
C28_DeptRuleNeedsBothDepartments ==
    [][last'.op = "assign_dormitory" /\ last'.res = ErrDormDept
          => DeptMismatch(last'.s, last'.c)
      ]_vars


(* C29: a section assignment validates before it writes: for a user who    *)
(* is not a STUDENT, or for an inactive section, it fails with a           *)
(* ValidationError and writes neither a SectionAssignment nor a change of  *)
(* the standing snapshot.                                                  *)
C29_SectionAssignmentValidates ==
    [][last'.op = "assign_section"
       /\ (Role(last'.s) # "STUDENT" \/ ~SectionActive(last'.c))
          => /\ last'.res # OK
             /\ sectionAssignments' = sectionAssignments
             /\ academicStatuses' = academicStatuses
      ]_vars

(* C30: after a section assignment for a student and a semester, whatever  *)
(* was assigned before, the SectionAssignment of that key is stored and    *)
(* points to the section assigned last, and the snapshot of the key exists *)
(* with the same section and with the GPAs and the standing of a fresh     *)
(* recompute.                                                              *)
C30_SectionAssignmentUpserts ==
    [][last'.op = "assign_section" /\ last'.res = OK
          => LET k == <<last'.s, last'.p>>
             IN  /\ sectionAssignments'[k] = last'.c
                 /\ academicStatuses'[k].status # Absent
                 /\ academicStatuses'[k].section = last'.c
                 /\ SnapshotFresh(Store', last'.s, last'.p)
      ]_vars

(* A student graded in semester 1, hence with a section there, has just   *)
(* been assigned to secB for semester 2, and the snapshot of semester 2    *)
(* carries the cumulative GPA of that grade.                               *)
C30_Witness ==
    /\ last.op = "assign_section"
    /\ last.c = "secB"
    /\ last.p = 2
    /\ sectionAssignments[<<last.s, 2>>] = "secB"
    /\ sectionAssignments[<<last.s, 1>>] = "secA"
    /\ \E c \in Courses : enrollments[<<last.s, c, 1>>] \in Letters
    /\ academicStatuses[<<last.s, 2>>].cumulative_gpa # NoGpa


(* The student may live in the room: STUDENT role, active room of the      *)
(* student's gender, and no department of the room other than the          *)
(* student's.                                                              *)
EligibleRoom(s, r) ==
    /\ Role(s) = "STUDENT"
    /\ DormActive(r)
    /\ UserGender(s) = DormGender(r)
    /\ DormDept(r) = NoDept \/ UserDept(s) = DormDept(r)

(* C31: a dormitory assignment for a student who already has one in the    *)
(* semester, to a different eligible room with a free seat, succeeds and   *)
(* replaces the previous room: the one DormitoryAssignment of the student  *)
(* in the semester then points to the new room.                            *)
C31_AssignmentReplacesRoom ==
    [][\A s \in Students, r \in Dormitories, p \in Semesters :
         /\ JustRanDorm("assign_dormitory", s, r, p)
         /\ dormitoryAssignments[<<s, p>>] \notin {Absent, r}
         /\ EligibleRoom(s, r)
         /\ AvailableSlots(Store, r, p) > 0
         => /\ last'.res = OK
            /\ dormitoryAssignments'[<<s, p>>] = r
      ]_vars


(* C32: a recompute of the standing run by approve or by a grade           *)
(* submission never changes the section of a stored snapshot; a step that  *)
(* changes the section of a stored snapshot is a section assignment for    *)
(* the key of that snapshot.                                               *)
C32_RecomputeKeepsSection ==
    [][\A k \in Users \X Semesters :
         academicStatuses[k].status # Absent
         => /\ last'.op \in {"approve", "submit"}
               => academicStatuses'[k].section = academicStatuses[k].section
            /\ academicStatuses'[k].section # academicStatuses[k].section
               => last'.op = "assign_section" /\ <<last'.s, last'.p>> = k
      ]_vars

(* A grade submission has just recomputed a snapshot that carries secB.    *)
C32_Witness ==
    /\ last.op = "submit"
    /\ last.res = OK
    /\ academicStatuses[<<last.s, last.p>>].section = "secB"
    /\ academicStatuses[<<last.s, last.p>>].semester_gpa # NoGpa


(* What Enrollment.clean asks of a stored enrollment k at the moment its   *)
(* grade is written.                                                       *)
GradeWritable(k) ==
    /\ Role(k[1]) = "STUDENT"
    /\ ~Dismissed(k[1])
    /\ ~(UserDept(k[1]) # NoDept /\ CourseDept(k[2]) # NoDept
         /\ UserDept(k[1]) # CourseDept(k[2]))
    /\ StatusOf(k[1], k[3]) = "APPROVED"
    /\ sectionAssignments[Key(k[1], k[3])] # Absent

(* C33: the grade write of a grade submission runs the enrollment's own    *)
(* validation again: a letter is stored on an enrollment only if at that   *)
(* moment the student has the STUDENT role, is not dismissed by the most   *)
(* recent standing, is of the course's department, and has an APPROVED     *)
(* registration and a SectionAssignment for the semester; otherwise the    *)
(* submission leaves the enrollment's grade as it was, empty.              *)
C33_GradeWriteRevalidates ==
    [][/\ \A k \in Users \X Courses \X Semesters :
              enrollments'[k] # enrollments[k] /\ enrollments'[k] \in Letters
                  => GradeWritable(k)
       /\ last'.op = "submit" /\ ~GradeWritable(<<last'.s, last'.c, last'.p>>)
              => enrollments' = enrollments
      ]_vars

(* A submission that passed GradeSubmission.clean was refused at the grade *)
(* write, and the enrollment is still ungraded.                            *)
C33_Witness ==
    /\ last.op = "submit"
    /\ last.res \in {ErrEnrDismissed, ErrEnrNoReg}
    /\ enrollments[<<last.s, last.c, last.p>>] = Null

============================================================================
